---------------------------- MODULE Spec2Model ----------------------------
(***************************************************************************)
(* Timed commitments for sealed-bid auctions: the RSA hidden-order groups  *)
(* (rsa/src/hog) and the lazy timed commitment (timed_commitments/src/     *)
(* lazy_tc.rs).                                                            *)
(*                                                                         *)
(* Six specifications share the module:                                    *)
(*   SpecHog         calls of the group API (signed and unsigned variant)  *)
(*                   on inputs drawn from bounded sets;                    *)
(*   Spec            the LazyTC protocol: commit, commitments assembled by *)
(*                   hand, tampering with the published commitment or      *)
(*                   associated data, force_open and ver_open;             *)
(*   SpecTimeParams  gen_time_params, ver_time_params and the proof of     *)
(*                   exponentiation;                                       *)
(*   SpecEncode      encode_bigint of the solidity encoding                *)
(*                   (solidity/src/lib.rs);                                *)
(*   SpecBench       commit and the self-open of the auction benchmark     *)
(*                   (solidity/benches/bench_auction_house.rs);            *)
(*   SpecOrder       the LazyTC protocol with the sub-protocol calls of    *)
(*                   force_open and ver_open listed in order, and with a   *)
(*                   BasicTC::ver_open that may return an Err.             *)
(*                                                                         *)
(* Option<T> is a sequence: None is <<>>, Some(v) is <<v>>.                *)
(* A group element is its field n (an integer).                            *)
(***************************************************************************)
EXTENDS Integers, Sequences, FiniteSets

\* ---------------------------------------------------------------- bounds
\* largest integer handed to from_nat
MaxNat == 67
\* from_nat is also handed the integers from -MaxNeg to 0
MaxNeg == 1
\* largest integer the operands of op, power and inverse are built from
MaxOperand == 34
\* largest exponent handed to power
MaxExp == 4

\* largest puzzle hardness t of the time parameters
MaxT == 2
\* largest puzzle randomness alpha drawn by commit
MaxAlpha == 2
\* largest integer a replaced puzzle base tc_comm.x is built from
MaxTamperX == 5
\* largest puzzle hardness t the setup of the time parameters is run with
MaxSetupT == 5
\* largest puzzle randomness alpha a puzzle is made with and solved both ways
MaxLockAlpha == 32
\* largest number of bytes of a magnitude handed to encode_bigint
MaxDataLen == 65

\* messages and associated data (byte strings) handed to commit and ver_open
Msgs == {<<7>>, <<7, 1>>}
Ads == {<<1>>, <<2>>}

\* RSA moduli the group parameters are drawn from (products of two odd primes)
Moduli == {21, 33}
\* generator constants the group parameters are drawn from
GenChoices == {2}
\* generator constants a parameter set may carry: also one above M/2 and one
\* above M, for both moduli
GenConstants == GenChoices \cup {19, 35}

None == <<>>
Some(v) == <<v>>

Min(a, b) == IF a <= b THEN a ELSE b

VARIABLES
    M,            \* P::M, the modulus of the group parameters
    G,            \* P::G, the generator: Some(g), or None (unsigned only)
    variant,      \* "signed" (RsaHiddenOrderGroup) or "unsigned"
    call,         \* the last call of the group API and what it returned
    time_pp,      \* TimeParams [x, y, t]
    ped_pp,       \* PedersenParams [q, g, h]
    pc,           \* "setup" before commit, "committed" after LazyTC::commit,
                  \* "forged" after a commitment was assembled by hand
    msg,          \* the message committed to
    ad,           \* the associated data committed under
    comm,         \* the commitment commit returned
    self_opening, \* the opening commit returned
    pcomm,        \* the commitment presented to force_open and ver_open
    pad,          \* the associated data presented to them
    tamper,       \* how pcomm differs from comm: "none" | "x" | "ct" | "ped"
    force,        \* the call of force_open and its result
    ver,          \* the last call of ver_open and its result
    time_proof,   \* Option: the proof gen_time_params returned with time_pp
    tp_ver,       \* the call of ver_time_params and its result
    poe,          \* a proof of exponentiation made and verified under a prime l
    lock,         \* a puzzle made from a base x and solved both ways
    bigint,       \* a BigInt [sign, data] handed to encode_bigint
    token,        \* the token encode_bigint returned for it
    ped_r,        \* the Pedersen randomness commit drew
    bench         \* the parse of the randomness at the benchmark's self-open

hogVars == <<M, G, variant, call>>
tcVars == <<time_pp, ped_pp, pc, msg, ad, comm, self_opening, pcomm, pad,
            tamper, force, ver>>
setupVars == <<time_proof, tp_ver, poe, lock>>
encVars == <<bigint, token>>
benchVars == <<ped_r, bench>>
vars == <<hogVars, tcVars, setupVars, encVars, benchVars>>

\* ------------------------------------------------------------- BigInt
\* num-bigint's modpow(e, m): base^e mod m by square and multiply
RECURSIVE modpow(_, _, _)
modpow(b, e, m) ==
    IF e = 0 THEN 1 % m
    ELSE LET h == modpow(b, e \div 2, m)
             s == (h * h) % m
         IN IF e % 2 = 0 THEN s ELSE (s * (b % m)) % m

\* crate::bigint::extended_euclidean_gcd(a, b): <<x, y, g>> with a*x + b*y = g,
\* g >= 0; x may be negative
RECURSIVE extended_euclidean_gcd(_, _)
extended_euclidean_gcd(a, b) ==
    IF b = 0 THEN <<1, 0, a>>
    ELSE LET r == extended_euclidean_gcd(b, a % b)
         IN <<r[2], r[1] - (a \div b) * r[2], r[3]>>

abs(x) == IF x < 0 THEN 0 - x ELSE x

\* ------------------------------------------- RsaHiddenOrderGroup (signed)
\* the assertion of from_nat
from_nat_assert(n) == n > 0

\* (mutant) the reduced value is stored without folding
from_nat_nofold(n) == n % M
\* from_nat(n), for n passing the assertion
from_nat(n) ==
    LET a == n % M
        ma == M - a
    IN Min(a, ma)

\* (mutant) the product is folded without being reduced mod M
op_noreduce(x, y) ==
    LET a == x * y
        ma == M - a
    IN Min(a, ma)
\* (mutant) the reduced product is stored without folding
op_nofold(x, y) == (x * y) % M
\* (mutant) the larger of the product and its negation is stored
op_max(x, y) ==
    LET a == (x * y) % M
        ma == M - a
    IN IF a >= ma THEN a ELSE ma
op(x, y) ==
    LET a == (x * y) % M
        ma == M - a
    IN Min(a, ma)

identity == 1

generator == G[1]

\* (mutant) the larger of r and M - r is stored
power_max(x, e) ==
    LET r == modpow(x, e, M)
        mr == M - r
    IN IF r >= mr THEN r ELSE mr
\* (mutant) the power is stored without folding
power_nofold(x, e) == modpow(x, e, M)
power(x, e) ==
    LET r == modpow(x, e, M)
        mr == M - r
    IN Min(r, mr)

\* (mutant) a negative Bezout coefficient is not brought into 0..M-1
inverse_negative_kept(x) ==
    LET r == extended_euclidean_gcd(x, M)
        inv == r[1]
    IN IF abs(r[3]) > 1 THEN [status |-> "err", n |-> 0]
       ELSE IF from_nat_assert(inv) THEN [status |-> "ok", n |-> from_nat(inv)]
       ELSE [status |-> "panic", n |-> 0]
\* (mutant) the Bezout coefficient of M is taken for the inverse
inverse_other_coefficient(x) ==
    LET r == extended_euclidean_gcd(x, M)
        inv == IF r[2] < 0 THEN r[2] + M ELSE r[2]
    IN IF abs(r[3]) > 1 THEN [status |-> "err", n |-> 0]
       ELSE IF from_nat_assert(inv) THEN [status |-> "ok", n |-> from_nat(inv)]
       ELSE [status |-> "panic", n |-> 0]
\* (mutant) the gcd is not looked at: the coefficient is returned as inverse
inverse_gcd_unchecked(x) ==
    LET r == extended_euclidean_gcd(x, M)
        inv == IF r[1] < 0 THEN r[1] + M ELSE r[1]
    IN IF from_nat_assert(inv) THEN [status |-> "ok", n |-> from_nat(inv)]
       ELSE [status |-> "panic", n |-> 0]
\* inverse(): [status, n]; "err" is Err(NotInvertible), "panic" the assertion
\* of from_nat
inverse(x) ==
    LET r == extended_euclidean_gcd(x, M)
        inv == IF r[1] < 0 THEN r[1] + M ELSE r[1]
    IN IF abs(r[3]) > 1 THEN [status |-> "err", n |-> 0]
       ELSE IF from_nat_assert(inv) THEN [status |-> "ok", n |-> from_nat(inv)]
       ELSE [status |-> "panic", n |-> 0]

default == from_nat(2)

\* ---------------------------------------- UnsignedRsaHiddenOrderGroup
\* (mutant) the integer is stored without being reduced mod M
unsigned_from_nat_noreduce(n) == n
\* from_nat(n), for n passing the assertion
unsigned_from_nat(n) == n % M

\* (mutant) the product is folded as in the signed group
unsigned_op_folded(x, y) ==
    LET a == (x * y) % M
        ma == M - a
    IN Min(a, ma)
unsigned_op(x, y) == (x * y) % M

unsigned_identity == 1

\* (mutant) the identity stands in for a generator that is not configured
unsigned_generator_sentinel ==
    IF G = None THEN [status |-> "ok", n |-> unsigned_identity]
    ELSE IF from_nat_assert(G[1]) THEN [status |-> "ok", n |-> unsigned_from_nat(G[1])]
    ELSE [status |-> "panic", n |-> 0]
\* generator(): Err(NotCyclic) without a configured generator
unsigned_generator ==
    IF G = None THEN [status |-> "err", n |-> 0]
    ELSE IF from_nat_assert(G[1]) THEN [status |-> "ok", n |-> unsigned_from_nat(G[1])]
    ELSE [status |-> "panic", n |-> 0]

unsigned_power(x, e) == modpow(x, e, M)

unsigned_inverse(x) ==
    LET r == extended_euclidean_gcd(x, M)
        inv == IF r[1] < 0 THEN r[1] + M ELSE r[1]
    IN IF abs(r[3]) > 1 THEN [status |-> "err", n |-> 0]
       ELSE IF from_nat_assert(inv) THEN [status |-> "ok", n |-> unsigned_from_nat(inv)]
       ELSE [status |-> "panic", n |-> 0]

unsigned_default == unsigned_from_nat(2)

\* ------------------------------------------------- the variant under call
FromNat(v, n) == IF v = "signed" THEN from_nat(n) ELSE unsigned_from_nat(n)
Op(v, x, y) == IF v = "signed" THEN op(x, y) ELSE unsigned_op(x, y)
Identity(v) == IF v = "signed" THEN identity ELSE unsigned_identity
Generator(v) ==
    IF v = "signed" THEN [status |-> "ok", n |-> generator] ELSE unsigned_generator
Power(v, x, e) == IF v = "signed" THEN power(x, e) ELSE unsigned_power(x, e)
Inverse(v, x) == IF v = "signed" THEN inverse(x) ELSE unsigned_inverse(x)
Default(v) == IF v = "signed" THEN default ELSE unsigned_default

\* ------------------------------------------------ solidity encoding
\* A BigInt is [sign, data]: sign "Minus" | "NoSign" | "Plus", data the
\* digits of the magnitude in base 256, least significant first and without
\* a most significant 0; zero is ["NoSign", <<>>].
\* Vec::reverse
reverse(v) == [i \in 1..Len(v) |-> v[Len(v) + 1 - i]]

\* Vec::resize(new_len, value): cut, or extended with value at the end
resize(v, new_len, value) ==
    IF new_len <= Len(v) THEN SubSeq(v, 1, new_len)
    ELSE v \o [i \in 1..(new_len - Len(v)) |-> value]

\* BigInt::to_bytes_be: <<sign, the magnitude's bytes, most significant
\* first>>; the magnitude of zero is the one byte 0
to_bytes_be(n) == <<n.sign, IF n.data = <<>> THEN <<0>> ELSE reverse(n.data)>>

\* Signed::is_negative
is_negative(n) == n.sign = "Minus"

\* (mutant) a length of 32k bytes is padded to 32(k+1)
pad_to_32_byte_offset_plus_one(bytes) ==
    LET pad_len == 32 * (Len(bytes) \div 32 + 1)
    IN reverse(resize(reverse(bytes), pad_len, 0))
\* pad_to_32_byte_offset(bytes), for the non-empty bytes of to_bytes_be
pad_to_32_byte_offset(bytes) ==
    LET pad_len == 32 * ((Len(bytes) - 1) \div 32 + 1)
    IN reverse(resize(reverse(bytes), pad_len, 0))

\* encode_bigint(n): Token::Tuple([Token::Bytes(bytes), Token::Bool(sign)])
encode_bigint(n) ==
    [bytes |-> pad_to_32_byte_offset(to_bytes_be(n)[2]), sign |-> is_negative(n)]

\* ------------------------------------------------------- bytes, scalars
\* <G::ScalarField as PrimeField>::BigInt::NUM_LIMBS (64-bit limbs)
NUM_LIMBS == 4
f_bytes == NUM_LIMBS * 8

\* BigInteger::to_bytes_le: the len little-endian bytes of n
RECURSIVE to_bytes_le(_, _)
to_bytes_le(n, len) ==
    IF len = 0 THEN <<>> ELSE <<n % 256>> \o to_bytes_le(n \div 256, len - 1)

\* BigInt::from_bytes_le(Sign::Plus, bytes)
RECURSIVE from_bytes_le(_)
from_bytes_le(bytes) ==
    IF bytes = <<>> THEN 0 ELSE Head(bytes) + 256 * from_bytes_le(Tail(bytes))

\* rsa::bigint::nat_to_f: the field element n, Err when n is no element of
\* the field of pp
nat_to_f(pp, n) ==
    IF n < pp.q THEN [status |-> "ok", f |-> n] ELSE [status |-> "err", f |-> 0]

\* the digits v without the most significant zeros (v least significant first)
RECURSIVE normalized(_)
normalized(v) ==
    IF v = <<>> THEN <<>>
    ELSE IF v[Len(v)] = 0 THEN normalized(SubSeq(v, 1, Len(v) - 1)) ELSE v

\* BigInt::from_bytes_be(Sign::Plus, bytes): the BigInt [sign, data] whose
\* magnitude has bytes as its digits, most significant first
from_bytes_be(bytes) ==
    LET data == normalized(reverse(bytes))
    IN [sign |-> IF data = <<>> THEN "NoSign" ELSE "Plus", data |-> data]

\* nat_to_f of a BigInt [sign, data]; a magnitude of more than three digits
\* is above the modulus of every field of PedersenParamChoices
nat_to_f_bigint(pp, n) ==
    IF Len(n.data) <= 3 THEN nat_to_f(pp, from_bytes_le(n.data))
    ELSE [status |-> "err", f |-> 0]

\* Vec::split_off(at): <<the vector truncated to at, the tail>>
split_off(v, at) == <<SubSeq(v, 1, at), SubSeq(v, at + 1, Len(v))>>

\* ---------------------------------------------------------- Pedersen
\* The curve group of prime order q is written additively as Z_q with
\* g = 1: a group element is its discrete logarithm to base g.
PedersenParamChoices == {[q |-> 5, g |-> 1, h |-> 2]}

\* the scalar a message is committed as
msg_scalar(pp, m) == from_bytes_le(m) % pp.q

\* PedersenComm::commit with randomness r: g^s * h^r
Pedersen_commit(pp, m, r) == (msg_scalar(pp, m) * pp.g + r * pp.h) % pp.q

\* PedersenComm::ver_open: recompute and compare
Pedersen_ver_open(pp, c, m, r) == c = Pedersen_commit(pp, m, r)

\* ------------------------------------------------------------- PoE
RECURSIVE Pow2(_)
Pow2(t) == IF t = 0 THEN 1 ELSE 2 * Pow2(t - 1)

\* the primes hash_to_prime maps to
PoEPrimes == <<3, 5, 7>>
hash_to_prime(x, y, t) == PoEPrimes[((x + 2 * y + t) % Len(PoEPrimes)) + 1]

\* prover: q = x^floor(2^t / l)
PoE_prove(x, y, t) == power(x, Pow2(t) \div hash_to_prime(x, y, t))

\* verifier: q^l * x^r == y with r = 2^t mod l
PoE_verify(x, y, t, q) ==
    LET l == hash_to_prime(x, y, t)
        r == Pow2(t) % l
    IN op(power(q, l), power(x, r)) = y

\* --------------------------------------------------------- BasicTC
\* x squared t times in sequence
RECURSIVE Squarings(_, _)
Squarings(x, t) == IF t = 0 THEN x ELSE Squarings(op(x, x), t - 1)

\* BasicTC::gen_time_params(t): x = generator(), y = x^(2^t) by t squarings,
\* and a proof of exponentiation over (x, y, t): <<TimeParams, PoEProof>>
BasicTC_gen_time_params(t) ==
    LET x == generator
        y == Squarings(x, t)
    IN <<[x |-> x, y |-> y, t |-> t], PoE_prove(x, y, t)>>

\* BasicTC::gen_time_params_cheating(t, order): y in one modpow, the
\* exponent 2^t reduced by the known group order: TimeParams
BasicTC_gen_time_params_cheating(t, ord) ==
    LET x == generator
        y == power(x, modpow(2, t, ord))
    IN [x |-> x, y |-> y, t |-> t]

\* BasicTC::ver_time_params: Ok(the proof verifies for (pp.x, pp.y, pp.t))
BasicTC_ver_time_params(pp, proof) ==
    [status |-> "ok", val |-> PoE_verify(pp.x, pp.y, pp.t, proof)]

\* the key derived from a group element: a hash, taken to be injective
derive_key(w) == [hash_of |-> w]

\* authenticated encryption, idealised: a ciphertext opens only under the
\* key and associated data it was made with, and only unaltered (alt = 0)
AEAD_enc(k, a, pt) == [key |-> k, ad |-> a, pt |-> pt, alt |-> 0]
AEAD_dec(k, a, ct) ==
    IF ct.key = k /\ ct.ad = a /\ ct.alt = 0 THEN Some(ct.pt) ELSE None

\* BasicTC::commit with randomness alpha: <<Comm, Opening>>
BasicTC_commit(pp, m, a, alpha) ==
    LET u == power(pp.x, alpha)
        w == power(pp.y, alpha)
    IN <<[x |-> u, ct |-> AEAD_enc(derive_key(w), a, m)],
         [kind |-> "SELF", alpha |-> alpha, y |-> 0, poe |-> 0]>>

\* BasicTC::force_open: <<Option<plaintext>, Opening>>
BasicTC_force_open(pp, c, a) ==
    LET w == Squarings(c.x, pp.t)
    IN <<AEAD_dec(derive_key(w), a, c.ct),
         [kind |-> "FORCE", alpha |-> 0, y |-> w, poe |-> PoE_prove(c.x, w, pp.t)]>>

\* BasicTC::ver_open: Ok(bool)
BasicTC_ver_open(pp, c, a, m, o) ==
    IF o.kind = "SELF"
    THEN [status |-> "ok",
          val |-> /\ power(pp.x, o.alpha) = c.x
                  /\ AEAD_dec(derive_key(power(pp.y, o.alpha)), a, c.ct) = m]
    ELSE [status |-> "ok",
          val |-> /\ PoE_verify(c.x, o.y, pp.t, o.poe)
                  /\ AEAD_dec(derive_key(o.y), a, c.ct) = m]

\* ---------------------------------------------------------- LazyTC
\* LazyTC::gen_time_params and ver_time_params hand over to BasicTC
gen_time_params(t) == BasicTC_gen_time_params(t)

ver_time_params(pp, proof) == BasicTC_ver_time_params(pp, proof)

gen_time_params_cheating(t, ord) == BasicTC_gen_time_params_cheating(t, ord)

NoOpening == [tc_opening |-> [kind |-> "NONE", alpha |-> 0, y |-> 0, poe |-> 0],
              tc_m |-> None]

\* (mutant) the Pedersen randomness is not appended to the plaintext
commit_no_append(tpp, ppp, m, a, r, alpha) ==
    LET ped_comm == Pedersen_commit(ppp, m, r)
        tc_m == m
        tc == BasicTC_commit(tpp, tc_m, a, alpha)
    IN <<[ped_comm |-> ped_comm, tc_comm |-> tc[1]],
         [tc_opening |-> tc[2], tc_m |-> Some(tc_m)]>>
\* LazyTC::commit with Pedersen randomness r and puzzle randomness alpha:
\* <<Comm, Opening>>
commit(tpp, ppp, m, a, r, alpha) ==
    LET ped_comm == Pedersen_commit(ppp, m, r)
        ped_opening == r
        tc_m == m \o to_bytes_le(ped_opening, f_bytes)
        tc == BasicTC_commit(tpp, tc_m, a, alpha)
    IN <<[ped_comm |-> ped_comm, tc_comm |-> tc[1]],
         [tc_opening |-> tc[2], tc_m |-> Some(tc_m)]>>

\* The plaintext is split into the message and the trailing f_bytes of the
\* Pedersen randomness, as force_open and ver_open both do:
\*   let mut m = tc_m.to_vec();
\*   let ped_opening = nat_to_f(&BigInt::from_bytes_le(Sign::Plus,
\*                                  &m.split_off(m.len() - f_bytes)))?;
\* "panic": m.len() - f_bytes underflows; "err": nat_to_f returned Err
split_tc_m(ppp, tc_m) ==
    IF Len(tc_m) < f_bytes
    THEN [status |-> "panic", m |-> <<>>, ped_opening |-> 0]
    ELSE LET sp == split_off(tc_m, Len(tc_m) - f_bytes)
             f == nat_to_f(ppp, from_bytes_le(sp[2]))
         IN [status |-> f.status, m |-> sp[1], ped_opening |-> f.f]

\* (mutant) the whole plaintext, randomness included, is returned as message
force_open_keeps_r(tpp, ppp, c, a) ==
    LET fo == BasicTC_force_open(tpp, c.tc_comm, a)
        tc_m == fo[1]
        opening == [tc_opening |-> fo[2], tc_m |-> tc_m]
    IN IF tc_m # None
       THEN LET sp == split_tc_m(ppp, tc_m[1])
            IN IF sp.status # "ok"
               THEN [status |-> sp.status, m |-> None, opening |-> NoOpening,
                     calls |-> <<"BasicTC::force_open">>]
               ELSE IF Pedersen_ver_open(ppp, c.ped_comm, sp.m, sp.ped_opening)
                    THEN [status |-> "ok", m |-> Some(tc_m[1]), opening |-> opening,
                          calls |-> <<"BasicTC::force_open", "PedersenComm::ver_open">>]
                    ELSE [status |-> "ok", m |-> None, opening |-> opening,
                          calls |-> <<"BasicTC::force_open", "PedersenComm::ver_open">>]
       ELSE [status |-> "ok", m |-> None, opening |-> opening,
             calls |-> <<"BasicTC::force_open">>]
\* (mutant) the message is returned whether or not the Pedersen check passes
force_open_no_ped_check(tpp, ppp, c, a) ==
    LET fo == BasicTC_force_open(tpp, c.tc_comm, a)
        tc_m == fo[1]
        opening == [tc_opening |-> fo[2], tc_m |-> tc_m]
    IN IF tc_m # None
       THEN LET sp == split_tc_m(ppp, tc_m[1])
            IN IF sp.status # "ok"
               THEN [status |-> sp.status, m |-> None, opening |-> NoOpening,
                     calls |-> <<"BasicTC::force_open">>]
               ELSE [status |-> "ok", m |-> Some(sp.m), opening |-> opening,
                     calls |-> <<"BasicTC::force_open">>]
       ELSE [status |-> "ok", m |-> None, opening |-> opening,
             calls |-> <<"BasicTC::force_open">>]
\* (mutant) a failed decryption is reported as an error
force_open_err_on_none(tpp, ppp, c, a) ==
    LET fo == BasicTC_force_open(tpp, c.tc_comm, a)
        tc_m == fo[1]
        opening == [tc_opening |-> fo[2], tc_m |-> tc_m]
    IN IF tc_m # None
       THEN LET sp == split_tc_m(ppp, tc_m[1])
            IN IF sp.status # "ok"
               THEN [status |-> sp.status, m |-> None, opening |-> NoOpening,
                     calls |-> <<"BasicTC::force_open">>]
               ELSE IF Pedersen_ver_open(ppp, c.ped_comm, sp.m, sp.ped_opening)
                    THEN [status |-> "ok", m |-> Some(sp.m), opening |-> opening,
                          calls |-> <<"BasicTC::force_open", "PedersenComm::ver_open">>]
                    ELSE [status |-> "ok", m |-> None, opening |-> opening,
                          calls |-> <<"BasicTC::force_open", "PedersenComm::ver_open">>]
       ELSE [status |-> "err", m |-> None, opening |-> NoOpening,
             calls |-> <<"BasicTC::force_open">>]
\* (mutant) the plaintext of the opening is the one split_off has shortened
force_open_split_in_place(tpp, ppp, c, a) ==
    LET fo == BasicTC_force_open(tpp, c.tc_comm, a)
        tc_m == fo[1]
        opening == [tc_opening |-> fo[2], tc_m |-> tc_m]
    IN IF tc_m # None
       THEN LET sp == split_tc_m(ppp, tc_m[1])
            IN IF sp.status # "ok"
               THEN [status |-> sp.status, m |-> None, opening |-> NoOpening,
                     calls |-> <<"BasicTC::force_open">>]
               ELSE IF Pedersen_ver_open(ppp, c.ped_comm, sp.m, sp.ped_opening)
                    THEN [status |-> "ok", m |-> Some(sp.m),
                          opening |-> [opening EXCEPT !.tc_m = Some(sp.m)],
                          calls |-> <<"BasicTC::force_open", "PedersenComm::ver_open">>]
                    ELSE [status |-> "ok", m |-> None, opening |-> opening,
                          calls |-> <<"BasicTC::force_open", "PedersenComm::ver_open">>]
       ELSE [status |-> "ok", m |-> None, opening |-> opening,
             calls |-> <<"BasicTC::force_open">>]
\* (mutant) the Pedersen check is also run when decryption failed
force_open_ped_unconditional(tpp, ppp, c, a) ==
    LET fo == BasicTC_force_open(tpp, c.tc_comm, a)
        tc_m == fo[1]
        opening == [tc_opening |-> fo[2], tc_m |-> tc_m]
    IN IF tc_m # None
       THEN LET sp == split_tc_m(ppp, tc_m[1])
            IN IF sp.status # "ok"
               THEN [status |-> sp.status, m |-> None, opening |-> NoOpening,
                     calls |-> <<"BasicTC::force_open">>]
               ELSE IF Pedersen_ver_open(ppp, c.ped_comm, sp.m, sp.ped_opening)
                    THEN [status |-> "ok", m |-> Some(sp.m), opening |-> opening,
                          calls |-> <<"BasicTC::force_open", "PedersenComm::ver_open">>]
                    ELSE [status |-> "ok", m |-> None, opening |-> opening,
                          calls |-> <<"BasicTC::force_open", "PedersenComm::ver_open">>]
       ELSE [status |-> "ok", m |-> None, opening |-> opening,
             calls |-> <<"BasicTC::force_open", "PedersenComm::ver_open">>]
\* LazyTC::force_open: [status, m, opening, calls]; status "ok" is
\* Ok((m, opening)); calls lists the sub-protocol calls in the order made
force_open(tpp, ppp, c, a) ==
    LET fo == BasicTC_force_open(tpp, c.tc_comm, a)
        tc_m == fo[1]
        opening == [tc_opening |-> fo[2], tc_m |-> tc_m]
    IN IF tc_m # None
       THEN LET sp == split_tc_m(ppp, tc_m[1])
            IN IF sp.status # "ok"
               THEN [status |-> sp.status, m |-> None, opening |-> NoOpening,
                     calls |-> <<"BasicTC::force_open">>]
               ELSE IF Pedersen_ver_open(ppp, c.ped_comm, sp.m, sp.ped_opening)
                    THEN [status |-> "ok", m |-> Some(sp.m), opening |-> opening,
                          calls |-> <<"BasicTC::force_open", "PedersenComm::ver_open">>]
                    ELSE [status |-> "ok", m |-> None, opening |-> opening,
                          calls |-> <<"BasicTC::force_open", "PedersenComm::ver_open">>]
       ELSE [status |-> "ok", m |-> None, opening |-> opening,
             calls |-> <<"BasicTC::force_open">>]

\* (mutant) the claimed message is not compared with the plaintext's
ver_open_no_compare(tpp, ppp, c, a, m, opening) ==
    LET tc == BasicTC_ver_open(tpp, c.tc_comm, a, opening.tc_m, opening.tc_opening)
        tc_valid == tc.val
    IN IF tc.status # "ok" THEN [status |-> "err", val |-> FALSE,
          calls |-> <<"BasicTC::ver_open">>]
       ELSE IF opening.tc_m # None
       THEN LET sp == split_tc_m(ppp, opening.tc_m[1])
                m_computed == sp.m
            IN IF sp.status # "ok"
               THEN [status |-> sp.status, val |-> FALSE,
                     calls |-> <<"BasicTC::ver_open">>]
               ELSE LET ped_valid == Pedersen_ver_open(ppp, c.ped_comm, m_computed,
                                                       sp.ped_opening)
                    IN IF m # None
                       THEN [status |-> "ok",
                             val |-> tc_valid /\ ped_valid,
                                   calls |-> <<"BasicTC::ver_open", "PedersenComm::ver_open">>]
                       ELSE [status |-> "ok", val |-> tc_valid /\ ~ped_valid,
                             calls |-> <<"BasicTC::ver_open", "PedersenComm::ver_open">>]
       ELSE [status |-> "ok", val |-> tc_valid /\ m = None,
             calls |-> <<"BasicTC::ver_open">>]
\* (mutant) the result of BasicTC::ver_open is left out of the verdict
ver_open_no_tc_valid(tpp, ppp, c, a, m, opening) ==
    LET tc == BasicTC_ver_open(tpp, c.tc_comm, a, opening.tc_m, opening.tc_opening)
        tc_valid == tc.val
    IN IF tc.status # "ok" THEN [status |-> "err", val |-> FALSE,
          calls |-> <<"BasicTC::ver_open">>]
       ELSE IF opening.tc_m # None
       THEN LET sp == split_tc_m(ppp, opening.tc_m[1])
                m_computed == sp.m
            IN IF sp.status # "ok"
               THEN [status |-> sp.status, val |-> FALSE,
                     calls |-> <<"BasicTC::ver_open">>]
               ELSE LET ped_valid == Pedersen_ver_open(ppp, c.ped_comm, m_computed,
                                                       sp.ped_opening)
                    IN IF m # None
                       THEN [status |-> "ok",
                             val |-> ped_valid /\ m_computed = m[1],
                                   calls |-> <<"BasicTC::ver_open", "PedersenComm::ver_open">>]
                       ELSE [status |-> "ok", val |-> ~ped_valid,
                             calls |-> <<"BasicTC::ver_open", "PedersenComm::ver_open">>]
       ELSE [status |-> "ok", val |-> tc_valid /\ m = None,
             calls |-> <<"BasicTC::ver_open">>]
\* (mutant) a claimed None is accepted when the Pedersen check passes
ver_open_none_not_negated(tpp, ppp, c, a, m, opening) ==
    LET tc == BasicTC_ver_open(tpp, c.tc_comm, a, opening.tc_m, opening.tc_opening)
        tc_valid == tc.val
    IN IF tc.status # "ok" THEN [status |-> "err", val |-> FALSE,
          calls |-> <<"BasicTC::ver_open">>]
       ELSE IF opening.tc_m # None
       THEN LET sp == split_tc_m(ppp, opening.tc_m[1])
                m_computed == sp.m
            IN IF sp.status # "ok"
               THEN [status |-> sp.status, val |-> FALSE,
                     calls |-> <<"BasicTC::ver_open">>]
               ELSE LET ped_valid == Pedersen_ver_open(ppp, c.ped_comm, m_computed,
                                                       sp.ped_opening)
                    IN IF m # None
                       THEN [status |-> "ok",
                             val |-> tc_valid /\ ped_valid /\ m_computed = m[1],
                                   calls |-> <<"BasicTC::ver_open", "PedersenComm::ver_open">>]
                       ELSE [status |-> "ok", val |-> tc_valid /\ ped_valid,
                             calls |-> <<"BasicTC::ver_open", "PedersenComm::ver_open">>]
       ELSE [status |-> "ok", val |-> tc_valid /\ m = None,
             calls |-> <<"BasicTC::ver_open">>]
\* (mutant) a claimed None is accepted without regard to the Pedersen check
ver_open_on_none_unchecked(tc, ppp, c, m, opening) ==
    LET tc_valid == tc.val
    IN IF tc.status # "ok" THEN [status |-> "err", val |-> FALSE,
                                 calls |-> <<"BasicTC::ver_open">>]
       ELSE IF opening.tc_m # None
       THEN LET sp == split_tc_m(ppp, opening.tc_m[1])
                m_computed == sp.m
            IN IF sp.status # "ok"
               THEN [status |-> sp.status, val |-> FALSE,
                     calls |-> <<"BasicTC::ver_open">>]
               ELSE LET ped_valid == Pedersen_ver_open(ppp, c.ped_comm, m_computed,
                                                       sp.ped_opening)
                    IN IF m # None
                       THEN [status |-> "ok",
                             val |-> tc_valid /\ ped_valid /\ m_computed = m[1],
                             calls |-> <<"BasicTC::ver_open", "PedersenComm::ver_open">>]
                       ELSE [status |-> "ok", val |-> tc_valid,
                             calls |-> <<"BasicTC::ver_open", "PedersenComm::ver_open">>]
       ELSE [status |-> "ok", val |-> tc_valid /\ m = None,
             calls |-> <<"BasicTC::ver_open">>]
\* The body of LazyTC::ver_open after the call of BasicTC::ver_open has
\* returned tc (status "err" is an Err, which the ? operator returns at
\* once): [status, val, calls]; status "ok" is Ok(val); calls lists the
\* sub-protocol calls in the order made
ver_open_on(tc, ppp, c, m, opening) ==
    LET tc_valid == tc.val
    IN IF tc.status # "ok" THEN [status |-> "err", val |-> FALSE,
                                 calls |-> <<"BasicTC::ver_open">>]
       ELSE IF opening.tc_m # None
       THEN LET sp == split_tc_m(ppp, opening.tc_m[1])
                m_computed == sp.m
            IN IF sp.status # "ok"
               THEN [status |-> sp.status, val |-> FALSE,
                     calls |-> <<"BasicTC::ver_open">>]
               ELSE LET ped_valid == Pedersen_ver_open(ppp, c.ped_comm, m_computed,
                                                       sp.ped_opening)
                    IN IF m # None
                       THEN [status |-> "ok",
                             val |-> tc_valid /\ ped_valid /\ m_computed = m[1],
                             calls |-> <<"BasicTC::ver_open", "PedersenComm::ver_open">>]
                       ELSE [status |-> "ok", val |-> tc_valid /\ ~ped_valid,
                             calls |-> <<"BasicTC::ver_open", "PedersenComm::ver_open">>]
       ELSE [status |-> "ok", val |-> tc_valid /\ m = None,
             calls |-> <<"BasicTC::ver_open">>]
\* LazyTC::ver_open: BasicTC::ver_open is called first, the rest of the
\* body runs on its result
ver_open(tpp, ppp, c, a, m, opening) ==
    ver_open_on(BasicTC_ver_open(tpp, c.tc_comm, a, opening.tc_m,
                                 opening.tc_opening), ppp, c, m, opening)

\* ------------------------------------------------------- SpecHog
\* call: fn the function, a and b the element operands, e the integer
\* argument (from_nat's n, power's e, or the n of the from_nat that built a),
\* eb the n of the from_nat that built b,
\* chained whether operand a is the element the previous call returned,
\* status "ok" | "err" | "panic", out the element returned
CallRec(fn, a, b, e, eb, chained, status, out) ==
    [fn |-> fn, a |-> a, b |-> b, e |-> e, eb |-> eb, chained |-> chained,
     status |-> status, out |-> out]

NoCall == CallRec("none", 0, 0, 0, 0, FALSE, "ok", 0)

\* no commitment has been made
NoComm == [ped_comm |-> 0, tc_comm |-> [x |-> 0, ct |-> AEAD_enc(derive_key(0), <<>>, <<>>)]]
NoForce == [status |-> "none", comm |-> NoComm, ad |-> <<>>, m |-> None,
            opening |-> NoOpening, calls |-> <<>>]
NoVer == [status |-> "none", m |-> None, which |-> "none", val |-> FALSE,
          calls |-> <<>>, tc_status |-> "none"]

TcIdle ==
    /\ time_pp = [x |-> 0, y |-> 0, t |-> 0]
    /\ ped_pp = [q |-> 0, g |-> 0, h |-> 0]
    /\ pc = "idle"
    /\ msg = <<>>
    /\ ad = <<>>
    /\ comm = NoComm
    /\ self_opening = NoOpening
    /\ pcomm = NoComm
    /\ pad = <<>>
    /\ tamper = "none"
    /\ force = NoForce
    /\ ver = NoVer

\* nothing has been encoded
NoToken == [bytes |-> <<>>, sign |-> FALSE]
EncIdle ==
    /\ bigint = [sign |-> "NoSign", data |-> <<>>]
    /\ token = NoToken

\* the benchmark's self-open has not parsed an opening
NoBench == [status |-> "none", ped_opening |-> 0]
BenchIdle ==
    /\ ped_r = 0
    /\ bench = NoBench

\* no time parameters are under verification, no proof has been made
NoTpVer == [status |-> "none", val |-> FALSE]
NoPoe == [x |-> 0, y |-> 0, t |-> 0, l |-> 0, q |-> 0, ok |-> FALSE]
NoLock == [x |-> 0, alpha |-> 0, t |-> 0, u |-> 0, w_commit |-> 0, w_force |-> 0]

SetupIdle ==
    /\ time_proof = None
    /\ tp_ver = NoTpVer
    /\ poe = NoPoe
    /\ lock = NoLock

InitHog ==
    /\ M \in Moduli
    /\ variant \in {"signed", "unsigned"}
    /\ G \in {Some(g) : g \in GenConstants}
           \cup (IF variant = "unsigned" THEN {None} ELSE {})
    /\ call = NoCall
    /\ TcIdle
    /\ SetupIdle
    /\ EncIdle
    /\ BenchIdle

\* no call has been made: the first call takes operands built by from_nat
Fresh == call.fn = "none"

CallFromNat(k) ==
    /\ Fresh
    /\ call' = IF from_nat_assert(k)
               THEN CallRec("from_nat", 0, 0, k, 0, FALSE, "ok", FromNat(variant, k))
               ELSE CallRec("from_nat", 0, 0, k, 0, FALSE, "panic", 0)
    /\ UNCHANGED <<benchVars, M, G, variant, tcVars, setupVars, encVars>>

CallIdentity ==
    /\ Fresh
    /\ call' = CallRec("identity", 0, 0, 0, 0, FALSE, "ok", Identity(variant))
    /\ UNCHANGED <<benchVars, M, G, variant, tcVars, setupVars, encVars>>

CallGenerator ==
    /\ Fresh
    /\ LET r == Generator(variant)
       IN call' = CallRec("generator", 0, 0, 0, 0, FALSE, r.status, r.n)
    /\ UNCHANGED <<benchVars, M, G, variant, tcVars, setupVars, encVars>>

CallDefault ==
    /\ Fresh
    /\ call' = CallRec("default", 0, 0, 0, 0, FALSE, "ok", Default(variant))
    /\ UNCHANGED <<benchVars, M, G, variant, tcVars, setupVars, encVars>>

CallOp(ka, kb) ==
    /\ Fresh
    /\ LET a == FromNat(variant, ka)
           b == FromNat(variant, kb)
       IN call' = CallRec("op", a, b, ka, kb, FALSE, "ok", Op(variant, a, b))
    /\ UNCHANGED <<benchVars, M, G, variant, tcVars, setupVars, encVars>>

CallPower(ka, e) ==
    /\ Fresh
    /\ LET a == FromNat(variant, ka)
       IN call' = CallRec("power", a, 0, e, 0, FALSE, "ok", Power(variant, a, e))
    /\ UNCHANGED <<benchVars, M, G, variant, tcVars, setupVars, encVars>>

CallInverse(ka) ==
    /\ Fresh
    /\ LET a == FromNat(variant, ka)
           r == Inverse(variant, a)
       IN call' = CallRec("inverse", a, 0, ka, 0, FALSE, r.status, r.n)
    /\ UNCHANGED <<benchVars, M, G, variant, tcVars, setupVars, encVars>>

\* the element returned by the previous call is the receiver of the next
HasElement == call.fn # "none" /\ call.status = "ok"

ChainOp(kb) ==
    /\ HasElement
    /\ LET b == FromNat(variant, kb)
       IN call' = CallRec("op", call.out, b, 0, kb, TRUE, "ok", Op(variant, call.out, b))
    /\ UNCHANGED <<benchVars, M, G, variant, tcVars, setupVars, encVars>>

ChainPower(e) ==
    /\ HasElement
    /\ call' = CallRec("power", call.out, 0, e, 0, TRUE, "ok", Power(variant, call.out, e))
    /\ UNCHANGED <<benchVars, M, G, variant, tcVars, setupVars, encVars>>

ChainInverse ==
    /\ HasElement
    /\ LET r == Inverse(variant, call.out)
       IN call' = CallRec("inverse", call.out, 0, 0, 0, TRUE, r.status, r.n)
    /\ UNCHANGED <<benchVars, M, G, variant, tcVars, setupVars, encVars>>

NextHog ==
    \/ \E k \in (0 - MaxNeg)..MaxNat : CallFromNat(k)
    \/ CallIdentity
    \/ CallGenerator
    \/ CallDefault
    \/ \E ka, kb \in 1..MaxOperand : CallOp(ka, kb)
    \/ \E ka \in 1..MaxOperand, e \in 0..MaxExp : CallPower(ka, e)
    \/ \E ka \in 1..MaxOperand : CallInverse(ka)
    \/ \E kb \in 1..MaxOperand : ChainOp(kb)
    \/ \E e \in 0..MaxExp : ChainPower(e)
    \/ ChainInverse

SpecHog == InitHog /\ [][NextHog]_vars

\* ------------------------------------------------------------ Spec
\* Parameters are generated honestly: x = generator(), y = x^(2^t).
Init ==
    /\ M \in Moduli
    /\ variant = "signed"
    /\ G \in {Some(g) : g \in GenChoices}
    /\ call = NoCall
    /\ time_pp \in {gen_time_params(t)[1] : t \in 0..MaxT}
    /\ ped_pp \in PedersenParamChoices
    /\ pc = "setup"
    /\ msg = <<>>
    /\ ad = <<>>
    /\ comm = NoComm
    /\ self_opening = NoOpening
    /\ pcomm = NoComm
    /\ pad = <<>>
    /\ tamper = "none"
    /\ force = NoForce
    /\ ver = NoVer
    /\ SetupIdle
    /\ EncIdle
    /\ BenchIdle

\* LazyTC::commit(rng, time_pp, ped_pp, m, a); the rng draws r and alpha
Commit(m, a, r, alpha) ==
    /\ pc = "setup"
    /\ alpha < M
    /\ LET c == commit(time_pp, ped_pp, m, a, r, alpha)
       IN /\ comm' = c[1]
          /\ self_opening' = c[2]
          /\ pcomm' = c[1]
    /\ msg' = m
    /\ ad' = a
    /\ pad' = a
    /\ pc' = "committed"
    /\ ped_r' = r
    /\ UNCHANGED <<bench, hogVars, encVars, setupVars, time_pp, ped_pp, tamper,
                   force, ver>>

\* The plaintexts a committer may encrypt who calls BasicTC::commit itself:
\* shorter than the f_bytes of a scalar, or ending in f_bytes that encode a
\* scalar up to the field modulus q, which is no field element
AdvPlaintexts ==
    {<<>>, <<7>>, to_bytes_le(0, f_bytes - 1), to_bytes_le(0, f_bytes)}
        \cup UNION {{<<7>> \o to_bytes_le(r, f_bytes) : r \in 0..pp.q}
                       : pp \in PedersenParamChoices}

\* A commitment is assembled from its public fields: tc_comm is the
\* BasicTC commitment to a plaintext tc_m of the committer's choice, ped_comm
\* a group element p of their choice; the opening carries tc_m
CommitForged(tc_m, a, p, alpha) ==
    /\ pc = "setup"
    /\ alpha < M
    /\ LET tc == BasicTC_commit(time_pp, tc_m, a, alpha)
           c == [ped_comm |-> p, tc_comm |-> tc[1]]
       IN /\ comm' = c
          /\ self_opening' = [tc_opening |-> tc[2], tc_m |-> Some(tc_m)]
          /\ pcomm' = c
    /\ msg' = <<>>
    /\ ad' = a
    /\ pad' = a
    /\ pc' = "forged"
    /\ UNCHANGED <<benchVars, hogVars, encVars, setupVars, time_pp, ped_pp, tamper,
                   force, ver>>

\* a commitment has been published
Published == pc \in {"committed", "forged"}

\* comm.tc_comm.x is replaced by from_nat(k)
TamperX(k) ==
    /\ pc = "committed" /\ tamper = "none"
    /\ from_nat(k) # comm.tc_comm.x
    /\ pcomm' = [pcomm EXCEPT !.tc_comm.x = from_nat(k)]
    /\ tamper' = "x"
    /\ ver' = NoVer
    /\ UNCHANGED <<benchVars, hogVars, encVars, setupVars, time_pp, ped_pp, pc, msg,
                   ad, comm, self_opening, pad, force>>

\* a byte of comm.tc_comm.ct is changed
TamperCt ==
    /\ pc = "committed" /\ tamper = "none"
    /\ pcomm' = [pcomm EXCEPT !.tc_comm.ct.alt = 1]
    /\ tamper' = "ct"
    /\ ver' = NoVer
    /\ UNCHANGED <<benchVars, hogVars, encVars, setupVars, time_pp, ped_pp, pc, msg,
                   ad, comm, self_opening, pad, force>>

\* comm.ped_comm is replaced by another group element
TamperPed(p) ==
    /\ pc = "committed" /\ tamper = "none"
    /\ p # comm.ped_comm
    /\ pcomm' = [pcomm EXCEPT !.ped_comm = p]
    /\ tamper' = "ped"
    /\ ver' = NoVer
    /\ UNCHANGED <<benchVars, hogVars, encVars, setupVars, time_pp, ped_pp, pc, msg,
                   ad, comm, self_opening, pad, force>>

\* other associated data is presented
TamperAd(a) ==
    /\ pc = "committed" /\ pad = ad
    /\ a # ad
    /\ pad' = a
    /\ ver' = NoVer
    /\ UNCHANGED <<benchVars, hogVars, encVars, setupVars, time_pp, ped_pp, pc, msg,
                   ad, comm, self_opening, pcomm,
                   tamper, force>>

\* LazyTC::force_open(time_pp, ped_pp, pcomm, pad)
ForceOpen ==
    /\ Published /\ force.status = "none"
    /\ LET r == force_open(time_pp, ped_pp, pcomm, pad)
       IN force' = [status |-> r.status, comm |-> pcomm, ad |-> pad, m |-> r.m,
                    opening |-> r.opening, calls |-> r.calls]
    /\ ver' = NoVer
    /\ UNCHANGED <<benchVars, hogVars, encVars, setupVars, time_pp, ped_pp, pc, msg,
                   ad, comm, self_opening, pcomm,
                   pad, tamper>>

\* LazyTC::ver_open(time_pp, ped_pp, pcomm, pad, m, opening) with the opening
\* of commit ("self") or of force_open ("force")
VerOpen(m, which) ==
    /\ Published
    /\ which = "force" => force.status = "ok"
    /\ LET o == IF which = "self" THEN self_opening ELSE force.opening
           r == ver_open(time_pp, ped_pp, pcomm, pad, m, o)
       IN ver' = [status |-> r.status, m |-> m, which |-> which, val |-> r.val,
                  calls |-> r.calls,
                  tc_status |-> BasicTC_ver_open(time_pp, pcomm.tc_comm, pad,
                                                 o.tc_m, o.tc_opening).status]
    /\ UNCHANGED <<benchVars, hogVars, encVars, setupVars, time_pp, ped_pp, pc, msg,
                   ad, comm, self_opening, pcomm,
                   pad, tamper, force>>

\* the messages a caller of ver_open claims
ClaimedMsgs == {None} \cup {Some(m) : m \in Msgs}

Next ==
    \/ \E m \in Msgs, a \in Ads, r \in 0..(ped_pp.q - 1), alpha \in 1..MaxAlpha :
          Commit(m, a, r, alpha)
    \/ \E tc_m \in AdvPlaintexts, a \in Ads, p \in 0..(ped_pp.q - 1),
          alpha \in 1..MaxAlpha : CommitForged(tc_m, a, p, alpha)
    \/ \E k \in 1..MaxTamperX : TamperX(k)
    \/ TamperCt
    \/ \E p \in 0..(ped_pp.q - 1) : TamperPed(p)
    \/ \E a \in Ads : TamperAd(a)
    \/ ForceOpen
    \/ \E m \in ClaimedMsgs, which \in {"self", "force"} : VerOpen(m, which)

Spec == Init /\ [][Next]_vars

\* ------------------------------------------------------- SpecOrder
\* The order of the sub-protocol calls inside force_open and ver_open.
\* BasicTC::ver_open returns a Result; here it may return an Err, of which
\* LazyTC::ver_open sees only that the ? operator returns it.
VerOpenTcErr(m, which) ==
    /\ Published
    /\ which = "force" => force.status = "ok"
    /\ LET o == IF which = "self" THEN self_opening ELSE force.opening
           r == ver_open_on([status |-> "err", val |-> FALSE], ped_pp, pcomm, m, o)
       IN ver' = [status |-> r.status, m |-> m, which |-> which, val |-> r.val,
                  calls |-> r.calls, tc_status |-> "err"]
    /\ UNCHANGED <<benchVars, hogVars, encVars, setupVars, time_pp, ped_pp, pc, msg,
                   ad, comm, self_opening, pcomm,
                   pad, tamper, force>>

InitOrder == Init

NextOrder ==
    \/ \E m \in Msgs, a \in Ads, r \in 0..(ped_pp.q - 1), alpha \in 1..MaxAlpha :
          Commit(m, a, r, alpha)
    \/ \E tc_m \in AdvPlaintexts, a \in Ads, p \in 0..(ped_pp.q - 1),
          alpha \in 1..MaxAlpha : CommitForged(tc_m, a, p, alpha)
    \/ TamperCt
    \/ \E a \in Ads : TamperAd(a)
    \/ ForceOpen
    \/ \E m \in ClaimedMsgs, which \in {"self", "force"} : VerOpen(m, which)
    \/ \E m \in ClaimedMsgs, which \in {"self", "force"} : VerOpenTcErr(m, which)

SpecOrder == InitOrder /\ [][NextOrder]_vars

\* -------------------------------------------------- SpecTimeParams
\* The setup of the time parameters, and proofs of exponentiation for bases
\* built by from_nat under each prime the challenge may be.
\* primes a challenge l is drawn from
Primes == {2, 3, 5, 7, 11, 13}

InitTimeParams ==
    /\ M \in Moduli
    /\ variant = "signed"
    /\ G \in {Some(g) : g \in GenChoices}
    /\ call = NoCall
    /\ TcIdle
    /\ SetupIdle
    /\ EncIdle
    /\ BenchIdle

\* Euler's totient of m
phi(m) == Cardinality({k \in 1..m : extended_euclidean_gcd(k, m)[3] = 1})

\* (mutant) the modulus is taken for the group order
order_modulus == M
\* the benchmark's constant order: the order phi(M) of the group of its modulus
order == phi(M)

\* no setup call has been made
FreshSetup == time_pp.x = 0 /\ time_proof = None /\ poe = NoPoe /\ lock = NoLock

\* LazyTC::gen_time_params(t)
GenTimeParams(t) ==
    /\ FreshSetup
    /\ LET g == gen_time_params(t)
       IN /\ time_pp' = g[1]
          /\ time_proof' = Some(g[2])
    /\ UNCHANGED <<benchVars, hogVars, encVars, ped_pp, pc, msg, ad, comm, self_opening, pcomm, pad,
                   tamper, force, ver, tp_ver, poe, lock>>

\* TC::gen_time_params_cheating(t, &order), the benchmark's setup
GenTimeParamsCheating(t) ==
    /\ FreshSetup
    /\ time_pp' = gen_time_params_cheating(t, order)
    /\ UNCHANGED <<benchVars, hogVars, encVars, ped_pp, pc, msg, ad, comm, self_opening, pcomm,
                   pad, tamper, force, ver, setupVars>>

\* LazyTC::ver_time_params(time_pp, proof) on what gen_time_params returned
VerTimeParams ==
    /\ time_proof # None /\ tp_ver.status = "none"
    /\ tp_ver' = ver_time_params(time_pp, time_proof[1])
    /\ UNCHANGED <<benchVars, hogVars, encVars, tcVars, time_proof, poe, lock>>

\* The honest prover's and the verifier's computation for y = x^(2^t) under
\* the prime l: q = x^floor(2^t / l), r = 2^t mod l, accept iff q^l * x^r = y
PoEProveVerify(k, t, l) ==
    /\ FreshSetup
    /\ LET x == from_nat(k)
           y == Squarings(x, t)
           q == power(x, Pow2(t) \div l)
           r == Pow2(t) % l
       IN poe' = [x |-> x, y |-> y, t |-> t, l |-> l, q |-> q,
                  ok |-> op(power(q, l), power(x, r)) = y]
    /\ UNCHANGED <<benchVars, hogVars, encVars, tcVars, time_proof, tp_ver, lock>>

\* The two ways to the group element the key is derived from, for the
\* parameters (x, y = x^(2^t)) with x = from_nat(k): commit takes
\* u = x^alpha and w = y^alpha, force_open squares u t times
TimeLock(k, alpha, t) ==
    /\ FreshSetup
    /\ alpha < M
    /\ LET x == from_nat(k)
           y == Squarings(x, t)
           u == power(x, alpha)
       IN lock' = [x |-> x, alpha |-> alpha, t |-> t, u |-> u,
                   w_commit |-> power(y, alpha), w_force |-> Squarings(u, t)]
    /\ UNCHANGED <<benchVars, hogVars, encVars, tcVars, time_proof, tp_ver, poe>>

NextTimeParams ==
    \/ \E t \in 0..MaxSetupT : GenTimeParams(t)
    \/ \E t \in 0..MaxSetupT : GenTimeParamsCheating(t)
    \/ VerTimeParams
    \/ \E k \in 1..MaxOperand, t \in 0..MaxSetupT, l \in Primes : PoEProveVerify(k, t, l)
    \/ \E k \in 1..MaxOperand, alpha \in 1..MaxLockAlpha, t \in 0..MaxSetupT :
          TimeLock(k, alpha, t)

SpecTimeParams == InitTimeParams /\ [][NextTimeParams]_vars

\* ------------------------------------------------------ SpecEncode
\* encode_bigint on integers of every magnitude length up to MaxDataLen bytes
\* the digits the magnitudes are filled with
Digits == {1, 255}
LowDigits == {0, 255}

\* magnitudes of len digits: a most significant digit hi above len - 1 digits lo
BigInts ==
    {[sign |-> "NoSign", data |-> <<>>]}
        \cup {[sign |-> sg, data |-> [i \in 1..len |-> IF i = len THEN hi ELSE lo]] :
                  sg \in {"Plus", "Minus"}, len \in 1..MaxDataLen,
                  hi \in Digits, lo \in LowDigits}

InitEncode ==
    /\ M \in Moduli
    /\ variant = "signed"
    /\ G \in {Some(g) : g \in GenChoices}
    /\ call = NoCall
    /\ TcIdle
    /\ SetupIdle
    /\ bigint \in BigInts
    /\ token = NoToken
    /\ BenchIdle

EncodeBigint ==
    /\ token = NoToken
    /\ token' = encode_bigint(bigint)
    /\ UNCHANGED <<benchVars, hogVars, tcVars, setupVars, bigint>>

NextEncode == EncodeBigint

SpecEncode == InitEncode /\ [][NextEncode]_vars

\* ------------------------------------------------------- SpecBench
\* The bidder's self-open of the auction benchmark: LazyTC::commit, then the
\* call site's own parse of the randomness from opening.tc_m.
\* the scalar byte length the call site fixes
bench_f_bytes == 32

InitBench == Init

\* let mut m_computed = tc_m_copy.to_vec();
\* let ped_opening = nat_to_f(&BigInt::from_bytes_be(Sign::Plus,
\*     &m_computed.split_off(m_computed.len() - f_bytes))).unwrap();
\* "panic": unwrap of the Err of nat_to_f
BenchSelfOpen ==
    /\ pc = "committed" /\ bench.status = "none"
    /\ LET m_computed == self_opening.tc_m[1]
           sp == split_off(m_computed, Len(m_computed) - bench_f_bytes)
           f == nat_to_f_bigint(ped_pp, from_bytes_be(sp[2]))
       IN bench' = IF f.status = "ok"
                   THEN [status |-> "ok", ped_opening |-> f.f]
                   ELSE [status |-> "panic", ped_opening |-> 0]
    /\ UNCHANGED <<hogVars, tcVars, setupVars, encVars, ped_r>>

NextBench ==
    \/ \E m \in Msgs, a \in Ads, r \in 0..(ped_pp.q - 1), alpha \in 1..MaxAlpha :
          Commit(m, a, r, alpha)
    \/ BenchSelfOpen

SpecBench == InitBench /\ [][NextBench]_vars

\* ============================================================ claims
\* commit has run and force_open has run on the commitment and associated
\* data of commit
HonestForce ==
    pc = "committed" /\ force.status # "none" /\ force.comm = comm /\ force.ad = ad
\* the commitment and associated data presented are those of commit
HonestPresented == pc = "committed" /\ tamper = "none" /\ pad = ad
\* force_open has run on the commitment and associated data now presented
ForcedPresented == force.status # "none" /\ force.comm = pcomm /\ force.ad = pad
\* ver_open has run, on the opening of commit or on that of an honest force_open
VerSelf == pc = "committed" /\ ver.status # "none" /\ ver.which = "self"
VerHonestForce == ver.status # "none" /\ ver.which = "force" /\ HonestForce

\* C1: force_open of an honest commitment returns Ok((Some(m), _)) with m
\* exactly the committed bytes, without the appended Pedersen randomness.
C1_ForceOpenAgreement ==
    HonestForce => force.status = "ok" /\ force.m = Some(msg)

C1_Witness ==
    /\ HonestForce /\ force.m = Some(msg)
    /\ time_pp.t >= 2 /\ Len(msg) = 2
    /\ self_opening.tc_opening.alpha = 2
    /\ from_bytes_le(SubSeq(self_opening.tc_m[1], Len(msg) + 1, Len(msg) + f_bytes)) > 0

\* C2: ver_open of an honest commitment with Some(m) and the opening returned
\* by commit returns Ok(true).
C2_CommitSelfOpenRoundTrip ==
    (VerSelf /\ HonestPresented /\ ver.m = Some(msg))
        => ver.status = "ok" /\ ver.val

C2_Witness ==
    /\ VerSelf /\ HonestPresented /\ ver.m = Some(msg) /\ ver.val
    /\ Len(msg) = 2 /\ time_pp.t >= 1
    /\ self_opening.tc_m[1][Len(msg) + 1] > 0

\* C3 as claimed: whatever force_open returns verifies, and every tampered
\* commitment force-opens to None.
C3_Original ==
    /\ (ver.status # "none" /\ ver.which = "force" /\ ForcedPresented
          /\ force.status = "ok" /\ ver.m = force.m)
          => ver.status = "ok" /\ ver.val
    /\ (force.status = "ok" /\ force.comm # comm) => force.m = None

\* C3 as amended: whatever force_open returns verifies; a commitment with a
\* changed ciphertext or a replaced Pedersen commitment force-opens to None;
\* one with a replaced puzzle base x force-opens to None whenever the
\* replacement solves to another group element than the committed base.
C3_ForceOpenOutputVerifies ==
    /\ (ver.status # "none" /\ ver.which = "force" /\ ForcedPresented
          /\ force.status = "ok" /\ ver.m = force.m)
          => ver.status = "ok" /\ ver.val
    /\ (force.status = "ok" /\ force.comm # comm
          /\ (force.comm.tc_comm.x # comm.tc_comm.x
                 => Squarings(force.comm.tc_comm.x, time_pp.t)
                        # Squarings(comm.tc_comm.x, time_pp.t)))
          => force.m = None

\* a tampered commitment was force-opened to None and the output verified
C3_Witness ==
    /\ ver.status = "ok" /\ ver.which = "force" /\ ForcedPresented
    /\ force.comm.tc_comm.x # comm.tc_comm.x /\ force.ad = ad
    /\ force.m = None /\ ver.m = None /\ ver.val

\* C4: for an honest commitment to m, ver_open with Some(m'), m' # m, returns
\* Ok(false), with the opening of commit and with that of force_open.
C4_WrongMessageRejected ==
    ((VerSelf \/ VerHonestForce) /\ HonestPresented
        /\ ver.m # None /\ ver.m # Some(msg))
        => ver.status = "ok" /\ ~ver.val

C4_Witness ==
    /\ VerHonestForce /\ HonestPresented
    /\ msg = <<7>> /\ ver.m = Some(<<7, 1>>) /\ ver.status = "ok" /\ ~ver.val
    /\ self_opening.tc_m[1][2] = 1

\* C5: with the opening unchanged, ver_open returns false whenever the
\* associated data, the ciphertext or the claimed message differs from the
\* one of commit.
C5_AeadBinding ==
    ((VerSelf \/ VerHonestForce) /\ tamper \in {"none", "ct"}
        /\ (pad # ad \/ tamper = "ct" \/ ver.m # Some(msg)))
        => ver.status = "ok" /\ ~ver.val

C5_Witness ==
    /\ VerSelf /\ tamper = "none" /\ pad # ad
    /\ ver.m = Some(msg) /\ ver.status = "ok" /\ ~ver.val

\* C6: for an honest commitment, ver_open with claimed message None returns
\* Ok(false), with the opening of commit and with that of force_open.
C6_HonestNotMalformed ==
    ((VerSelf \/ VerHonestForce) /\ HonestPresented /\ ver.m = None)
        => ver.status = "ok" /\ ~ver.val

C6_Witness ==
    /\ VerHonestForce /\ HonestPresented /\ ver.m = None
    /\ ver.status = "ok" /\ ~ver.val /\ force.m = Some(msg)

\* C7: in the signed group from_nat(a) = from_nat(M - a) for 0 < a < M, and
\* for n > 0, 0 <= from_nat(n).n <= M/2 and from_nat(n).n = min(n mod M, M - n mod M).
C7_CanonicalFolding ==
    (variant = "signed" /\ call.fn = "from_nat" /\ call.status = "ok")
        => /\ call.out = Min(call.e % M, M - (call.e % M))
           /\ 0 <= call.out /\ call.out <= M \div 2
           /\ call.e < M => call.out = from_nat(M - call.e)

C7_Witness ==
    /\ variant = "signed" /\ call.fn = "from_nat" /\ call.status = "ok"
    /\ call.e > M \div 2 /\ call.e < M /\ call.out = M - call.e

\* C8: in both variants, for elements a, b, c built by from_nat:
\* op(a, identity()) = a, op(a, b) = op(b, a), op(op(a, b), c) = op(a, op(b, c)).
C8_GroupLaws ==
    (call.fn = "op" /\ ~call.chained)
        => /\ call.b = Identity(variant) => call.out = call.a
           /\ call.out = Op(variant, call.b, call.a)
           /\ \A kc \in 1..MaxOperand :
                 LET c == FromNat(variant, kc)
                 IN Op(variant, call.out, c) = Op(variant, call.a, Op(variant, call.b, c))

C8_Witness ==
    /\ variant = "signed" /\ call.fn = "op" /\ ~call.chained
    /\ call.a > 1 /\ call.b > 1 /\ call.a # call.b
    /\ (call.a * call.b) % M > M \div 2
    /\ call.out = M - ((call.a * call.b) % M)

\* C9: in both variants, when inverse() of a = from_nat(k) returns Ok(b),
\* op(a, b).n = 1; also for k > M/2, the a = from_nat(M - k') of the claim.
C9_InverseLaw ==
    (call.fn = "inverse" /\ ~call.chained /\ call.status = "ok")
        => Op(variant, call.a, call.out) = 1

C9_Witness ==
    /\ call.fn = "inverse" /\ ~call.chained /\ call.status = "ok"
    /\ variant = "signed" /\ call.e = M - 2 /\ call.a = 2 /\ call.out > 1

\* C10: in both variants, for a built by from_nat and exponents i, j >= 0:
\* power(a, 0) = identity(), power(a, 1) = a, power(power(a, i), j) = power(a, i*j).
C10_ExponentLaws ==
    (call.fn = "power" /\ ~call.chained)
        => /\ call.e = 0 => call.out = Identity(variant)
           /\ call.e = 1 => call.out = call.a
           /\ \A j \in 0..MaxExp :
                 Power(variant, call.out, j) = Power(variant, call.a, call.e * j)

C10_Witness ==
    /\ call.fn = "power" /\ ~call.chained /\ variant = "signed"
    /\ call.e >= 2 /\ call.a > 1
    /\ call.out = M - modpow(call.a, call.e, M)

\* the greatest common divisor of a >= 0 and b >= 0
RECURSIVE gcd(_, _)
gcd(a, b) == IF b = 0 THEN a ELSE gcd(b, a % b)

\* C11: in both variants inverse() of an element a returns Err(NotInvertible)
\* exactly when gcd(a.n, M) > 1, and Ok otherwise; a is built by from_nat or
\* is the element a previous call returned.
C11_InverseErrIffNotCoprime ==
    call.fn = "inverse"
        => /\ call.status = "err" <=> gcd(call.a, M) > 1
           /\ call.status = "ok" <=> gcd(call.a, M) <= 1

C11_Witness ==
    /\ call.fn = "inverse" /\ call.status = "err"
    /\ variant = "signed" /\ call.a > 1 /\ call.a < M /\ gcd(call.a, M) = call.a

\* C12: the unsigned generator() returns Err(NotCyclic) when the parameters
\* have G = None and Ok(from_nat(g)) when G = Some(g); no element is returned
\* in place of the error.
C12_GeneratorNotCyclic ==
    (variant = "unsigned" /\ call.fn = "generator")
        => /\ G = None => call.status = "err"
           /\ G # None => call.status = "ok" /\ call.out = G[1] % M

C12_Witness ==
    /\ variant = "unsigned" /\ call.fn = "generator"
    /\ G = None /\ call.status = "err"

\* C13: the unsigned variant does not fold: op(from_nat(a), from_nat(b)).n is
\* (a*b) mod M for all a, b > 0 (so for a = M - i it is M - i*b while i*b < M),
\* and from_nat(a) differs from from_nat(M - a) for 0 < a < M with 2a # M.
C13_UnsignedNoFold ==
    /\ (variant = "unsigned" /\ call.fn = "op" /\ ~call.chained)
          => /\ call.out = (call.e * call.eb) % M
             /\ (call.e < M /\ (M - call.e) * call.eb < M)
                   => call.out = M - (M - call.e) * call.eb
    /\ (variant = "unsigned" /\ call.fn = "from_nat" /\ call.status = "ok"
          /\ call.e < M /\ 2 * call.e # M)
          => call.out # unsigned_from_nat(M - call.e)

\* the product of M - 2 and 3 is M - 6, the larger representative
C13_Witness ==
    /\ variant = "unsigned" /\ call.fn = "op" /\ ~call.chained
    /\ call.e = M - 2 /\ call.eb = 3 /\ call.out = M - 6 /\ call.out > M \div 2

\* C14: the signed op folds: for a, b > 0 with a*b <= M/2,
\* op(from_nat(M - a), from_nat(b)).n = a*b, the smaller representative.
C14_SignedOpFolds ==
    (variant = "signed" /\ call.fn = "op" /\ ~call.chained
        /\ call.e < M /\ 2 * (M - call.e) * call.eb <= M)
        => call.out = (M - call.e) * call.eb

C14_Witness ==
    /\ variant = "signed" /\ call.fn = "op" /\ ~call.chained
    /\ call.e = M - 2 /\ call.eb = 3 /\ call.out = 6

\* C15: in both variants from_nat(n) with n <= 0 is refused by a structured
\* ArgumentOutOfRange error returned to the caller: it neither panics nor
\* produces an element.
C15_FromNatRefusesStructured ==
    (call.fn = "from_nat" /\ call.e <= 0) => call.status = "err"

\* from_nat(0) was called in the unsigned variant and the assertion fired
C15_Witness ==
    /\ call.fn = "from_nat" /\ call.e = 0 /\ variant = "unsigned"
    /\ call.status = "panic"

\* C16: for every commitment and every opening, those included whose
\* plaintext tc_m is shorter than NUM_LIMBS*8 bytes, force_open and ver_open
\* return Ok or a structured Err and never panic.
C16_NoPanic ==
    force.status # "panic" /\ ver.status # "panic"

\* force_open has run on a commitment to a plaintext of f_bytes - 1 bytes
C16_Witness ==
    /\ pc = "forged" /\ force.status = "panic"
    /\ Len(self_opening.tc_m[1]) = f_bytes - 1

\* the puzzle of the commitment force_open ran on is solved to w, and the
\* ciphertext does not decrypt under the key derived from w
ForceDecryptionFails ==
    /\ force.status # "none"
    /\ LET w == Squarings(force.comm.tc_comm.x, time_pp.t)
       IN AEAD_dec(derive_key(w), force.ad, force.comm.tc_comm.ct) = None

\* C17: when BasicTC.force_open solves the puzzle but decryption fails, as
\* it does under other associated data, for a changed ciphertext and for a
\* puzzle base with another solution, LazyTC::force_open returns
\* Ok((None, opening)) with opening.tc_m = None and opening.tc_opening the
\* force-opening of BasicTC (the solution and its proof); never Err.
C17_SoftFailure ==
    /\ ForceDecryptionFails
          => /\ force.status = "ok" /\ force.m = None
             /\ force.opening.tc_m = None
             /\ force.opening.tc_opening
                   = BasicTC_force_open(time_pp, force.comm.tc_comm, force.ad)[2]
             /\ force.opening.tc_opening.kind = "FORCE"
    /\ (force.status # "none"
          /\ \/ force.ad # ad
             \/ force.comm.tc_comm.ct # comm.tc_comm.ct
             \/ Squarings(force.comm.tc_comm.x, time_pp.t)
                    # Squarings(comm.tc_comm.x, time_pp.t))
          => ForceDecryptionFails

\* force_open ran on a commitment with a replaced puzzle base
C17_Witness ==
    /\ ForceDecryptionFails /\ force.comm.tc_comm.x # comm.tc_comm.x /\ force.ad = ad
    /\ force.status = "ok" /\ force.m = None /\ force.opening.tc_m = None
    /\ force.opening.tc_opening.y = Squarings(force.comm.tc_comm.x, time_pp.t)
    /\ time_pp.t >= 1

\* C20: for every commitment whose ciphertext BasicTC.force_open decrypts to
\* a plaintext tc_m, LazyTC::force_open returns Ok((Some(m), opening)) if
\* tc_m splits into a message m and f_bytes of a scalar r for which
\* Pedersen.ver_open(comm.ped_comm, m, r) holds, and Ok((None, opening)) in
\* every other case, a scalar not below the field modulus included; it
\* never returns Err.
C20_RecoveredPlaintextOutcome ==
    (force.status # "none" /\ ~ForceDecryptionFails)
        => LET w == Squarings(force.comm.tc_comm.x, time_pp.t)
               tc_m == AEAD_dec(derive_key(w), force.ad, force.comm.tc_comm.ct)[1]
               n == Len(tc_m)
               m == SubSeq(tc_m, 1, n - f_bytes)
               r == from_bytes_le(SubSeq(tc_m, n - f_bytes + 1, n))
               valid == /\ n >= f_bytes
                        /\ r < ped_pp.q
                        /\ Pedersen_ver_open(ped_pp, force.comm.ped_comm, m, r)
           IN /\ force.status = "ok"
              /\ force.m = IF valid THEN Some(m) ELSE None

\* force_open ran on a commitment to a plaintext whose trailing f_bytes
\* encode the field modulus, and returned Err
C20_Witness ==
    /\ pc = "forged" /\ force.status = "err"
    /\ Len(self_opening.tc_m[1]) = 1 + f_bytes
    /\ self_opening.tc_m[1][2] = ped_pp.q

\* C18: for every t, gen_time_params(t) returns (pp, proof) with
\* pp.y = pp.x^(2^t) in the signed group and ver_time_params(pp, proof)
\* returns Ok(true); for the honest q = x^floor(2^t / l) and r = 2^t mod l
\* the verifier's equation op(power(q, l), power(x, r)) = y holds for every
\* prime l.
C18_TimeParamsVerify ==
    /\ time_proof # None
          => /\ time_pp.x = generator
             /\ time_pp.y = power(time_pp.x, Pow2(time_pp.t))
    /\ tp_ver.status # "none" => tp_ver.status = "ok" /\ tp_ver.val
    /\ poe.l # 0
          => /\ poe.y = power(poe.x, Pow2(poe.t))
             /\ poe.ok

\* parameters of hardness at least 3 were generated and verified, the proof
\* being a power of x other than x^0
C18_Witness ==
    /\ tp_ver.status = "ok" /\ tp_ver.val
    /\ time_pp.t >= 3 /\ time_pp.y # time_pp.x
    /\ Pow2(time_pp.t) \div hash_to_prime(time_pp.x, time_pp.y, time_pp.t) >= 1
    /\ time_proof[1] # identity

\* the integer a byte string stands for, most significant byte first
RECURSIVE be_value(_)
be_value(bytes) ==
    IF bytes = <<>> THEN 0
    ELSE 256 * be_value(SubSeq(bytes, 1, Len(bytes) - 1)) + bytes[Len(bytes)]

\* C19: encode_bigint(n) emits (bytes, sign): bytes is the magnitude of n,
\* most significant byte first, with zero bytes put before it up to the
\* smallest positive multiple of 32 bytes, so that bytes stands for |n| and a
\* magnitude of exactly 32k bytes is not lengthened; sign is true exactly
\* when n < 0.
C19_EncodeBigint ==
    token # NoToken
        => LET b == token.bytes
               len == IF bigint.data = <<>> THEN 1 ELSE Len(bigint.data)
               padn == Len(b) - len
           IN /\ Len(b) > 0 /\ Len(b) % 32 = 0
              /\ 0 <= padn /\ padn < 32
              /\ len % 32 = 0 => Len(b) = len
              /\ \A i \in 1..(Len(b) - Len(bigint.data)) : b[i] = 0
              /\ \A i \in 1..Len(bigint.data) : b[Len(b) + 1 - i] = bigint.data[i]
              /\ Len(bigint.data) <= 3
                    => be_value(SubSeq(b, Len(b) - 2, Len(b))) = from_bytes_le(bigint.data)
              /\ token.sign <=> bigint.sign = "Minus"

\* a negative integer with a magnitude of exactly 64 bytes was encoded
C19_Witness ==
    /\ token # NoToken /\ bigint.sign = "Minus" /\ token.sign
    /\ Len(bigint.data) = 64 /\ bigint.data[64] = 255 /\ bigint.data[1] = 0
    /\ Len(token.bytes) = 64 /\ token.bytes[1] = 255

\* the opening the last call of ver_open was handed
VerOpening == IF ver.which = "self" THEN self_opening ELSE force.opening

\* C21: with tc_valid the result of BasicTC.ver_open over opening.tc_m and
\* ped_valid that of the Pedersen check on the split of tc_m, ver_open returns
\* true exactly when opening.tc_m = Some(tc_m), m = Some(m'), tc_valid,
\* ped_valid and m' is the prefix of tc_m, or opening.tc_m = Some(tc_m),
\* m = None, tc_valid and not ped_valid, or opening.tc_m = None, m = None and
\* tc_valid; in every other combination it returns false.
C21_VerOpenDecisionTable ==
    ver.status # "none"
        => LET o == VerOpening
               tc_valid == BasicTC_ver_open(time_pp, pcomm.tc_comm, pad, o.tc_m,
                                            o.tc_opening).val
               tc_m == o.tc_m[1]
               n == Len(tc_m)
               prefix == SubSeq(tc_m, 1, n - f_bytes)
               r == from_bytes_le(SubSeq(tc_m, n - f_bytes + 1, n))
               ped_valid == /\ n >= f_bytes
                            /\ r < ped_pp.q
                            /\ Pedersen_ver_open(ped_pp, pcomm.ped_comm, prefix, r)
               accept ==
                   \/ /\ o.tc_m # None /\ ver.m # None
                      /\ tc_valid /\ ped_valid /\ ver.m[1] = prefix
                   \/ o.tc_m # None /\ ver.m = None /\ tc_valid /\ ~ped_valid
                   \/ o.tc_m = None /\ ver.m = None /\ tc_valid
           IN ver.status = "ok" /\ (ver.val <=> accept)

\* ver_open was handed the opening of a commitment to a plaintext of fewer
\* than f_bytes bytes, with the claimed message None
C21_Witness ==
    /\ pc = "forged" /\ ver.which = "self" /\ ver.m = None
    /\ Len(self_opening.tc_m[1]) < f_bytes
    /\ ver.status = "panic"

\* C22: after any sequence of from_nat, op, power, inverse, identity,
\* generator and default, every element of the signed group has
\* 0 <= n <= M/2 and n = min(n, M - n), for every choice of the parameters
\* (M, G), a generator constant G > M/2 or G >= M included.
C22_CanonicalFormInvariant ==
    (variant = "signed" /\ call.fn # "none" /\ call.status = "ok")
        => /\ 0 <= call.out /\ 2 * call.out <= M
           /\ call.out = Min(call.out, M - call.out)

\* generator() was called under parameters with G > M/2 and returned G
C22_Witness ==
    /\ variant = "signed" /\ call.fn = "generator" /\ call.status = "ok"
    /\ G[1] > M \div 2 /\ G[1] < M /\ call.out = G[1]

\* C23: for every element x, every alpha in [1, M) and every t >= 0,
\* squaring u = power(x, alpha) t times in sequence gives the element
\* power(y, alpha), y being x squared t times: commit and force_open derive
\* the key from the same group element.
C23_TimeLockIdentity ==
    lock.alpha # 0
        => /\ lock.w_force = lock.w_commit
           /\ lock.w_force = power(lock.x, lock.alpha * Pow2(lock.t))

\* a puzzle over a base above 1 with alpha = M - 1 and t >= 3 whose solution
\* is neither the identity nor the base
C23_Witness ==
    /\ lock.alpha = M - 1 /\ lock.t >= 3 /\ lock.x > 1
    /\ lock.w_force = lock.w_commit
    /\ lock.w_force # identity /\ lock.w_force # lock.x /\ lock.u # lock.x

\* the time parameters are those of the cheating setup
CheatingSetup == pc = "idle" /\ time_pp.x # 0 /\ time_proof = None

\* C24: for every t and the group order phi(M), the y computed in one modpow
\* as power(x, 2^t mod phi(M)) equals the y computed by t squarings of
\* x = generator(): gen_time_params_cheating(t, phi(M)) and
\* gen_time_params(t) give the same TimeParams.
C24_CheatingSetupAgrees ==
    CheatingSetup
        => /\ time_pp = gen_time_params(time_pp.t)[1]
           /\ time_pp.x = generator
           /\ time_pp.y = Squarings(generator, time_pp.t)

\* a cheating setup whose exponent 2^t was reduced by the group order
C24_Witness ==
    /\ CheatingSetup /\ time_pp.t = 5 /\ order = 20
    /\ modpow(2, time_pp.t, order) = 12
    /\ time_pp.y = Squarings(generator, 5) /\ time_pp.y # identity

\* C25: for every r, the scalar each consumer parses from the trailing bytes
\* of the tc_m = m || serialize_le(r) written by LazyTC::commit equals r: the
\* parsers of force_open and ver_open, and the self-open call site of the
\* auction benchmark, which takes the trailing 32 bytes of opening.tc_m.
C25_SerializationAgreement ==
    /\ pc = "committed"
          => LET sp == split_tc_m(ped_pp, self_opening.tc_m[1])
             IN sp.status = "ok" /\ sp.ped_opening = ped_r
    /\ bench.status # "none"
          => bench.status = "ok" /\ bench.ped_opening = ped_r

\* the call site parsed the bytes of a randomness r > 0 most significant
\* byte first: r * 256^31, which is no field element
C25_Witness ==
    /\ pc = "committed" /\ ped_r = 1 /\ bench.status = "panic"
    /\ Len(from_bytes_be(split_off(self_opening.tc_m[1], Len(msg))[2]).data)
           = bench_f_bytes
    /\ split_tc_m(ped_pp, self_opening.tc_m[1]).ped_opening = ped_r

\* C26: the sub-protocols run in a fixed order. In commit the Pedersen
\* commitment is computed first and its randomness is the tail of the
\* plaintext that BasicTC encrypts. In force_open BasicTC::force_open is
\* called first, the Pedersen check is made only when it returned a
\* plaintext, and never when decryption failed. In ver_open
\* BasicTC::ver_open is called first, and when it returns an Err that Err is
\* returned with no Pedersen check made.
C26_SubProtocolOrder ==
    /\ pc = "committed"
          => /\ comm.ped_comm = Pedersen_commit(ped_pp, msg, ped_r)
             /\ self_opening.tc_m = Some(msg \o to_bytes_le(ped_r, f_bytes))
             /\ comm.tc_comm.ct.pt = msg \o to_bytes_le(ped_r, f_bytes)
    /\ force.status # "none"
          => /\ Head(force.calls) = "BasicTC::force_open"
             /\ \A i \in 1..Len(force.calls) :
                   force.calls[i] = "PedersenComm::ver_open"
                       => /\ i > 1
                          /\ BasicTC_force_open(time_pp, force.comm.tc_comm,
                                                force.ad)[1] # None
             /\ ForceDecryptionFails => force.calls = <<"BasicTC::force_open">>
    /\ ver.status # "none"
          => /\ Head(ver.calls) = "BasicTC::ver_open"
             /\ \A i \in 1..Len(ver.calls) :
                   ver.calls[i] = "PedersenComm::ver_open"
                       => i > 1 /\ ver.tc_status = "ok"
             /\ ver.tc_status = "err"
                   => ver.status = "err" /\ ver.calls = <<"BasicTC::ver_open">>

\* every case at once: an honest commitment under other associated data, so
\* that decryption failed in force_open, and a ver_open to which
\* BasicTC::ver_open returned an Err
C26_Witness ==
    /\ pc = "committed" /\ ped_r > 0
    /\ ForceDecryptionFails /\ force.calls = <<"BasicTC::force_open">>
    /\ ver.tc_status = "err" /\ ver.status = "err"

\* the Pedersen check is reached, after BasicTC, in force_open and in ver_open
C26_WitnessChecked ==
    /\ force.status = "ok" /\ Len(force.calls) = 2
    /\ ver.status = "ok" /\ Len(ver.calls) = 2

\* the outcomes a second caller may claim for the same opening
C27_OtherClaims == ClaimedMsgs \cup {Some(<<>>), Some(<<7>>)}

\* C27: ver_open accepts at most one claimed outcome per opening: when
\* ver_open has returned Ok(true) for a claimed m (Some(bytes) or None), it
\* returns Ok(true) for no other claimed outcome under the same parameters,
\* commitment, associated data and opening.
C27_AtMostOneOutcome ==
    ver.status = "ok" /\ ver.val
        => \A m2 \in C27_OtherClaims :
              LET r == ver_open(time_pp, ped_pp, pcomm, pad, m2, VerOpening)
              IN r.status = "ok" /\ r.val => m2 = ver.m

\* None was accepted for a plaintext whose Pedersen check fails, while the
\* message the plaintext carries is among the other claims
C27_Witness ==
    /\ pc = "forged" /\ ver.status = "ok" /\ ver.val /\ ver.m = None
    /\ VerOpening.tc_m # None
    /\ Some(split_tc_m(ped_pp, VerOpening.tc_m[1]).m) \in C27_OtherClaims

\* C28: whenever force_open returns Ok((Some(m), opening)), opening.tc_m is
\* Some(m || r_bytes), the complete plaintext BasicTC decrypted and not the
\* part the split left, and the Pedersen check of comm.ped_comm passes for m
\* and the scalar r parsed from r_bytes.
C28_ForceOpenPostcondition ==
    force.status = "ok" /\ force.m # None
        => /\ force.opening.tc_m # None
           /\ force.opening.tc_m
                  = BasicTC_force_open(time_pp, force.comm.tc_comm, force.ad)[1]
           /\ LET m == force.m[1]
                  tc_m == force.opening.tc_m[1]
                  r_bytes == SubSeq(tc_m, Len(m) + 1, Len(tc_m))
                  r == nat_to_f(ped_pp, from_bytes_le(r_bytes))
              IN /\ Len(tc_m) = Len(m) + f_bytes
                 /\ tc_m = m \o r_bytes
                 /\ r.status = "ok"
                 /\ Pedersen_ver_open(ped_pp, force.comm.ped_comm, m, r.f)

\* force_open returned a message for a commitment assembled by hand, whose
\* ped_comm the committer chose to fit the plaintext
C28_Witness ==
    /\ pc = "forged" /\ force.status = "ok" /\ force.m # None
    /\ Len(force.opening.tc_m[1]) = Len(force.m[1]) + f_bytes

\* fold(n) = min(n, M - n)
fold(n) == Min(n, M - n)

\* C29: the signed group is the fold of the unsigned group. For all integers
\* a, b > 0 and e >= 0 the signed from_nat(a) is fold of the unsigned
\* from_nat(a), the signed op of from_nat(a) and from_nat(b) is fold of the
\* unsigned op of the unsigned from_nat(a) and from_nat(b), and the signed
\* power of from_nat(a) to e is fold of the unsigned power of the unsigned
\* from_nat(a) to e.
C29_SignedIsFoldOfUnsigned ==
    variant = "signed" /\ ~call.chained /\ call.status = "ok"
        => /\ call.fn = "from_nat"
                 => call.out = fold(unsigned_from_nat(call.e))
           /\ call.fn = "op"
                 => call.out = fold(unsigned_op(unsigned_from_nat(call.e),
                                                unsigned_from_nat(call.eb)))
           /\ call.fn = "power"
                 => \A k \in 1..MaxOperand :
                       from_nat(k) = call.a
                           => call.out = fold(unsigned_power(unsigned_from_nat(k),
                                                             call.e))

\* a signed power whose receiver was built from an integer above M/2 and
\* whose unsigned counterpart is above M/2, so that both folds act
C29_Witness ==
    /\ variant = "signed" /\ call.fn = "power" /\ ~call.chained /\ call.e = 3
    /\ \E k \in 1..MaxOperand :
          /\ k > M \div 2 /\ k < M
          /\ from_nat(k) = call.a
          /\ unsigned_power(unsigned_from_nat(k), call.e) > M \div 2
          /\ call.out = M - unsigned_power(unsigned_from_nat(k), call.e)

\* C30: inverse() is total on reachable elements. For every element reached
\* through from_nat, op, power, identity, generator and default, the element
\* n = 0 of from_nat(k*M) included, and every modulus, inverse() returns Ok or
\* Err(NotInvertible) and never reaches the assertion of from_nat with a
\* value that is not positive.
C30_InverseTotal ==
    call.fn = "inverse" => call.status \in {"ok", "err"}

\* inverse was called on the element 0 built by from_nat(M), and on an
\* element whose Bezout coefficient is negative
C30_Witness ==
    /\ call.fn = "inverse" /\ ~call.chained /\ call.e = M /\ call.a = 0
    /\ call.status = "err"

C30_WitnessNegativeCoefficient ==
    /\ call.fn = "inverse" /\ call.status = "ok"
    /\ extended_euclidean_gcd(call.a, M)[1] < 0

=============================================================================
